---- MODULE Spec2Model ----
(***************************************************************************)
(* Model of woreda_naming_standardizer: the column resolver map_columns    *)
(* (src/app.py) and the greedy fuzzy matcher match_and_merge_two_datasets  *)
(* (src/standardizer.py), driven the way run_app drives them.              *)
(*                                                                         *)
(* Text is a TLA+ string.  A cell is a record [kind, text]: kind is "str"  *)
(* or "int" and text is what Python's str() gives for the cell.  A data    *)
(* frame is a record [columns, rows]: the column labels in order, and the  *)
(* rows as tuples of cells in column order; row positions are 0-based as   *)
(* in pandas' default RangeIndex, so row i is rows[i + 1].                 *)
(*                                                                         *)
(* Similarity scores are the exact rationals [num, den] that rapidfuzz     *)
(* 3.x computes (no default processor); a score is compared with an        *)
(* integer threshold by cross-multiplication.                              *)
(***************************************************************************)
EXTENDS Integers, Sequences, FiniteSets, TLC

----------------------------------------------------------------------------
(* Characters and Python's str methods                                     *)

\* The characters the model's texts are written in, in code-point order.
Alphabet == " 0123456789ABCDEFGHIJKLMNOPQRSTUVWXYZabcdefghijklmnopqrstuvwxyz"

CharAt(s, i) == SubSeq(s, i, i)

\* ord(c), as the position of c in Alphabet
OrdOf == [c \in {CharAt(Alphabet, i) : i \in 1..Len(Alphabet)} |->
             CHOOSE i \in 1..Len(Alphabet) : CharAt(Alphabet, i) = c]

Ord(c) == OrdOf[c]

\* c.isspace()
IsSpace(c) == c = " "

\* The lower-case letter of every upper-case letter: 26 places on in Alphabet.
LowerOf == [c \in {CharAt(Alphabet, i) : i \in 12..37} |->
               CharAt(Alphabet, OrdOf[c] + 26)]

\* str.lower() of one character
LowerChar(c) == IF c \in DOMAIN LowerOf THEN LowerOf[c] ELSE c

RECURSIVE Lower(_)
Lower(s) == IF s = "" THEN "" ELSE LowerChar(CharAt(s, 1)) \o Lower(Tail(s))

RECURSIVE LStrip(_)
LStrip(s) == IF s # "" /\ IsSpace(CharAt(s, 1)) THEN LStrip(Tail(s)) ELSE s

RECURSIVE RStrip(_)
RStrip(s) ==
    IF s # "" /\ IsSpace(CharAt(s, Len(s)))
    THEN RStrip(SubSeq(s, 1, Len(s) - 1))
    ELSE s

Strip(s) == RStrip(LStrip(s))

\* str.split(): the maximal runs of non-space characters, in order
RECURSIVE SplitFrom(_, _, _)
SplitFrom(s, cur, acc) ==
    IF s = ""
    THEN IF cur = "" THEN acc ELSE Append(acc, cur)
    ELSE IF IsSpace(CharAt(s, 1))
         THEN SplitFrom(Tail(s), "", IF cur = "" THEN acc ELSE Append(acc, cur))
         ELSE SplitFrom(Tail(s), cur \o CharAt(s, 1), acc)

Split(s) == SplitFrom(s, "", <<>>)

\* s < t in Python's string order
RECURSIVE StrLess(_, _)
StrLess(s, t) ==
    IF t = "" THEN FALSE
    ELSE IF s = "" THEN TRUE
    ELSE IF CharAt(s, 1) = CharAt(t, 1) THEN StrLess(Tail(s), Tail(t))
    ELSE Ord(CharAt(s, 1)) < Ord(CharAt(t, 1))

\* " ".join(sorted(tokens))
RECURSIVE JoinSorted(_)
JoinSorted(tokens) ==
    IF tokens = {} THEN ""
    ELSE LET first == CHOOSE x \in tokens : \A y \in tokens \ {x} : StrLess(x, y)
             rest == tokens \ {first}
         IN  IF rest = {} THEN first ELSE first \o " " \o JoinSorted(rest)

Max(a, b) == IF a >= b THEN a ELSE b

Range(seq) == {seq[i] : i \in 1..Len(seq)}


----------------------------------------------------------------------------
(* rapidfuzz                                                               *)

\* One row of the longest-common-subsequence table: prev is the row of the
\* prefix before character c, acc the part of the new row built so far.
RECURSIVE LCSRow(_, _, _, _)
LCSRow(prev, c, t, acc) ==
    IF Len(acc) = Len(t) + 1 THEN acc
    ELSE LET p == Len(acc) + 1
         IN  LCSRow(prev, c, t,
                    Append(acc, IF c = CharAt(t, p - 1)
                                THEN prev[p - 1] + 1
                                ELSE Max(prev[p], acc[p - 1])))

RECURSIVE LCSFrom(_, _, _, _)
LCSFrom(s, t, i, prev) ==
    IF i > Len(s) THEN prev[Len(t) + 1]
    ELSE LCSFrom(s, t, i + 1, LCSRow(prev, CharAt(s, i), t, <<0>>))

LCS(s, t) == LCSFrom(s, t, 1, [p \in 1..(Len(t) + 1) |-> 0])

\* Indel distance: insertions and deletions turning s into t
IndelDistance(s, t) == Len(s) + Len(t) - 2 * LCS(s, t)

\* 100 - 100 * dist / lensum, and 100 for two empty texts
NormDistance(dist, lensum) ==
    IF lensum = 0 THEN [num |-> 100, den |-> 1]
    ELSE [num |-> 100 * (lensum - dist), den |-> lensum]

Zero == [num |-> 0, den |-> 1]

ScoreMax(a, b) == IF a.num * b.den >= b.num * a.den THEN a ELSE b

\* score >= threshold
ScoreGE(score, threshold) == score.num >= threshold * score.den

\* fuzz.ratio(s, t)
Ratio(s, t) == NormDistance(IndelDistance(s, t), Len(s) + Len(t))

\* fuzz.token_set_ratio(s, t)
TokenSetRatio(s, t) ==
    LET tokens_a == Range(Split(s))
        tokens_b == Range(Split(t))
        intersect == tokens_a \cap tokens_b
        diff_ab == JoinSorted(tokens_a \ tokens_b)
        diff_ba == JoinSorted(tokens_b \ tokens_a)
        sect_len == Len(JoinSorted(intersect))
        sep == IF sect_len # 0 THEN 1 ELSE 0
        sect_ab_len == sect_len + sep + Len(diff_ab)
        sect_ba_len == sect_len + sep + Len(diff_ba)
        result == NormDistance(IndelDistance(diff_ab, diff_ba),
                               sect_ab_len + sect_ba_len)
    IN  IF tokens_a = {} \/ tokens_b = {} THEN Zero
        ELSE IF intersect # {} /\ (diff_ab = "" \/ diff_ba = "")
        THEN [num |-> 100, den |-> 1]
        ELSE IF sect_len = 0 THEN result
        ELSE ScoreMax(result,
                 ScoreMax(NormDistance(sep + Len(diff_ab), sect_len + sect_ab_len),
                          NormDistance(sep + Len(diff_ba), sect_len + sect_ba_len)))

----------------------------------------------------------------------------
(* pandas data frames                                                      *)

StrCell(t) == [kind |-> "str", text |-> t]
IntCell(t) == [kind |-> "int", text |-> t]

\* str(cell)
ToText(cell) == cell.text

\* list.index(v): the first position holding v
IndexOf(seq, v) == CHOOSE i \in 1..Len(seq) : seq[i] = v /\ \A j \in 1..(i - 1) : seq[j] # v

Count(seq, v) == Cardinality({i \in 1..Len(seq) : seq[i] = v})

\* len(df)
NRows(df) == Len(df.rows)

\* df.iloc[i][col] for a label that names one column
Cell(df, i, col) == df.rows[i + 1][IndexOf(df.columns, col)]

\* df.iloc[i].to_dict()
RowDict(df, i) == [c \in Range(df.columns) |-> Cell(df, i, c)]

\* df.rename(columns={actual: req})
Rename(df, actual, req) ==
    [df EXCEPT !.columns =
        [k \in 1..Len(df.columns) |-> IF df.columns[k] = actual THEN req ELSE df.columns[k]]]

\* x.strip().lower() of the text of a cell: astype(str).str.strip().str.lower()
NormalizeCell(cell) == StrCell(Lower(Strip(ToText(cell))))

\* df[col] = df[col].astype(str).str.strip().str.lower(), col naming one column
NormalizeColumn(df, col) ==
    LET k == IndexOf(df.columns, col)
    IN  [df EXCEPT !.rows =
            [i \in 1..Len(df.rows) |->
                [j \in 1..Len(df.columns) |->
                    IF j = k THEN NormalizeCell(df.rows[i][j]) ELSE df.rows[i][j]]]]

----------------------------------------------------------------------------
(* app.py: the column resolver                                             *)

required_key_columns == <<"region", "zone", "woreda">>

\* "High threshold for column names"
ColumnNameThreshold == 85

NoMatch == [choice |-> "", score |-> Zero, index |-> 0]

\* The score of every choice against the query, in the order of the choices.
RECURSIVE Scores(_, _)
Scores(query, choices) ==
    IF choices = <<>> THEN <<>>
    ELSE <<Ratio(query, Head(choices))>> \o Scores(query, Tail(choices))

\* a < b and a <= b on scores
ScoreLess(a, b) == a.num * b.den < b.num * a.den
ScoreLE(a, b) == a.num * b.den <= b.num * a.den

\* A resolver that keeps the last of several best choices.
ExtractOneLast(query, choices) ==
    IF choices = <<>> THEN NoMatch
    ELSE LET sc == Scores(query, choices)
             best == CHOOSE i \in 1..Len(choices) :
                        /\ \A j \in 1..(i - 1) : ScoreLE(sc[j], sc[i])
                        /\ \A j \in (i + 1)..Len(choices) : ScoreLess(sc[j], sc[i])
         IN  [choice |-> choices[best], score |-> sc[best], index |-> best]

\* process.extractOne(query, choices, scorer=fuzz.ratio): the first choice of
\* the highest score, or nothing when there is no choice
ExtractOne(query, choices) ==
    IF choices = <<>> THEN NoMatch
    ELSE LET sc == Scores(query, choices)
             best == CHOOSE i \in 1..Len(choices) :
                        /\ \A j \in 1..(i - 1) : ScoreLess(sc[j], sc[i])
                        /\ \A j \in (i + 1)..Len(choices) : ScoreLE(sc[j], sc[i])
         IN  [choice |-> choices[best], score |-> sc[best], index |-> best]

\* best_match and best_match[1] >= 85
GoodMatch(best_match) ==
    best_match.index # 0 /\ ScoreGE(best_match.score, ColumnNameThreshold)

\* [col.strip().lower() for col in df.columns]
RECURSIVE NormalizedCols(_)
NormalizedCols(columns) ==
    IF columns = <<>> THEN <<>>
    ELSE <<Lower(Strip(Head(columns)))>> \o NormalizedCols(Tail(columns))

\* best_match of every required key, in the order of the keys
RECURSIVE BestMatches(_, _)
BestMatches(required_cols, normalized_cols) ==
    IF required_cols = <<>> THEN <<>>
    ELSE <<ExtractOne(Head(required_cols), normalized_cols)>>
             \o BestMatches(Tail(required_cols), normalized_cols)

\* map_columns(df, required_cols): the mapping as a function on the keys it
\* resolved, and the keys it did not resolve, in the order of required_cols
map_columns(df, required_cols) ==
    LET normalized_cols == NormalizedCols(df.columns)
        best_match == BestMatches(required_cols, normalized_cols)
        resolved == {k \in 1..Len(required_cols) : GoodMatch(best_match[k])}
    IN  [col_mapping |->
            [req_col \in {required_cols[k] : k \in resolved} |->
                df.columns[IndexOf(normalized_cols,
                                   best_match[IndexOf(required_cols, req_col)].choice)]],
         missing_cols |->
            SelectSeq(required_cols,
                      LAMBDA r : IndexOf(required_cols, r) \notin resolved)]

----------------------------------------------------------------------------
(* standardizer.py: match_and_merge_two_datasets                           *)

\* The keys of a mapping in dict order: map_columns inserts them in the order
\* of required_key_columns.
MappingItems(col_mapping) ==
    SelectSeq(required_key_columns, LAMBDA k : k \in DOMAIN col_mapping)

\* The renaming loop over col_mapping.items(): a key whose column already
\* carries the canonical name is left as it is; any other is renamed and
\* its values rewritten.  df[req_col] names no column (KeyError) or several
\* (a DataFrame, which has no .str: AttributeError) when the labels clash.
RECURSIVE StandardizeFrom(_, _, _)
StandardizeFrom(df, col_mapping, keys) ==
    IF keys = <<>> THEN [raised |-> FALSE, df |-> df]
    ELSE LET req_col == Head(keys)
             actual_col == col_mapping[req_col]
             renamed == Rename(df, actual_col, req_col)
         IN  IF actual_col # req_col
             THEN IF Count(renamed.columns, req_col) # 1
                  THEN [raised |-> TRUE, df |-> renamed]
                  ELSE StandardizeFrom(NormalizeColumn(renamed, req_col),
                                       col_mapping, Tail(keys))
             ELSE StandardizeFrom(df, col_mapping, Tail(keys))

Standardize(df, col_mapping) ==
    StandardizeFrom(df, col_mapping, MappingItems(col_mapping))

\* A non-key list that keeps every column of df2.
AllCols(df, col_mapping) == df.columns

\* [col for col in df2.columns if col not in col_mapping2.values()]
NonKeyCols(df, col_mapping) ==
    SelectSeq(df.columns,
              LAMBDA col : col \notin {col_mapping[k] : k \in DOMAIN col_mapping})

\* The three scores of row i1 of the first working table against row i2 of
\* the second.
RegionScore(c1, c2, i1, i2) ==
    Ratio(ToText(Cell(c1, i1, "region")), ToText(Cell(c2, i2, "region")))

ZoneScore(c1, c2, i1, i2) ==
    Ratio(ToText(Cell(c1, i1, "zone")), ToText(Cell(c2, i2, "zone")))

WoredaScore(c1, c2, i1, i2) ==
    TokenSetRatio(ToText(Cell(c1, i1, "woreda")), ToText(Cell(c2, i2, "woreda")))

\* An acceptance test with strict comparisons.
MeetsThresholdsStrict(rs, zs, ws, rt, zt, wt) ==
    ScoreLess([num |-> rt, den |-> 1], rs) /\ ScoreLess([num |-> zt, den |-> 1], zs) /\
    ScoreLess([num |-> wt, den |-> 1], ws)

\* region_score >= region_threshold and zone_score >= zone_threshold and
\* woreda_score >= woreda_threshold
MeetsThresholds(rs, zs, ws, rt, zt, wt) ==
    ScoreGE(rs, rt) /\ ScoreGE(zs, zt) /\ ScoreGE(ws, wt)

\* A skip test that never skips.
NeverMatched(i2, matched) == FALSE

\* if index2 in matched_indices_df2: continue
AlreadyMatched(i2, matched) == i2 \in matched

\* An inner scan that starts at the outer row's position.
InnerStartAtOuter(i1) == i1

\* The inner for loop starts at the first row of df2 for every row of df1.
InnerStart(i1) == 0

\* An inner scan that gives up on the first row that fails the test.
StopAfterReject(i2, n2) == n2

\* A row that fails the test is passed over: the scan goes on with the next.
NextAfterReject(i2, n2) == i2 + 1

\* combined_row = df1.iloc[index1].to_dict(), then
\* combined_row[col] = df2.iloc[index2][col] for col in df2_non_key_cols
CombinedRow(d1, d2, i1, i2, non_key_cols) ==
    LET base == RowDict(d1, i1)
    IN  [c \in DOMAIN base \cup Range(non_key_cols) |->
            IF c \in Range(non_key_cols) THEN Cell(d2, i2, c) ELSE base[c]]

\* A leftover list that starts at position 1.
UnmatchedIndicesFromOne(n, matched) ==
    SelectSeq([k \in 1..n |-> k - 1], LAMBDA i : i >= 1 /\ i \notin matched)

\* [i for i in range(len(df2)) if i not in matched_indices_df2]
UnmatchedIndices(n, matched) ==
    SelectSeq([k \in 1..n |-> k - 1], LAMBDA i : i \notin matched)

\* df2.iloc[indices]: the rows at those positions, with their positions
ILoc(df, indices) ==
    [k \in 1..Len(indices) |-> [index |-> indices[k], row |-> RowDict(df, indices[k])]]

----------------------------------------------------------------------------
(* The inputs the model runs on                                            *)

MaxRows1 == 2
MaxRows2 == 2
MaxCols == 3

SeqsUpTo(S, n) == UNION {[1..k -> S] : k \in 0..n}

\* Rows of the first table, as (region, zone, woreda, extra) in the order of
\* its columns.
Rows1 ==
    { <<StrCell("abcde"), StrCell("abcde"), StrCell("abcde"), IntCell("1")>>,
      <<StrCell("Abcde"), StrCell("abcde "), StrCell("ABCDE"), IntCell("2")>> }

\* Rows of the second table.  Against "abcde", "abcdx" scores exactly 80 with
\* both scorers, and "abcde x" scores 100 with the token-set scorer.
Rows2 ==
    { <<StrCell("abcde"), StrCell("abcde"), StrCell("abcde"), StrCell("p")>>,
      <<StrCell("abcdx"), StrCell("abcdx"), StrCell("abcdx"), StrCell("q")>>,
      <<StrCell("abcdx"), StrCell("abcde"), StrCell("abcde x"), StrCell("r")>> }

\* Column labels of the two tables, chosen together.
RenamedColumns ==
    <<<<"Region", "Zone ", "WOREDA", "val">>, <<" region", "ZONE", "Woreda", "val">>>>

ColumnPairs ==
    { <<<<"region", "zone", "woreda", "val">>, <<"region", "zone", "woreda", "note">>>>,
      RenamedColumns,
      <<<<"region", "Zone", "woreda", "Note">>, <<"Region", "zone", "woredas", "Zone">>>>,
      <<<<"Zone ", "zone", "region", "woreda">>, <<"regions", "zones", "woreda", "note">>>> }

DefaultThresholds == <<80, 80, 80>>

ThresholdTriples ==
    { DefaultThresholds, <<81, 80, 80>>, <<80, 81, 80>>, <<80, 80, 81>> }

\* Runs of the matcher on tables of rows from the pools: every pair of label
\* lists at the default thresholds, and the renamed lists at every triple.
PoolInputs ==
    { [df1 |-> [columns |-> ct[1][1], rows |-> r1],
       df2 |-> [columns |-> ct[1][2], rows |-> r2],
       thresholds |-> ct[2]] :
        ct \in (ColumnPairs \X {DefaultThresholds})
                   \cup ({RenamedColumns} \X ThresholdTriples),
        r1 \in SeqsUpTo(Rows1, MaxRows1),
        r2 \in SeqsUpTo(Rows2, MaxRows2) }

\* Column labels the resolver is tried on.
ColumnNames ==
    { "region", "Region ", "regions", "area", "zone", "zones", "azone",
      "woreda", "wereda" }

DistinctSeqs(S, n) ==
    {q \in SeqsUpTo(S, n) : \A i, j \in 1..Len(q) : i # j => q[i] # q[j]}

\* Runs of the resolver on label lists of a first table of one row.
ResolverInputs ==
    { [df1 |-> [columns |-> cols,
                rows |-> <<[k \in 1..Len(cols) |-> StrCell("abcde")]>>],
       df2 |-> [columns |-> <<"region", "zone", "woreda", "note">>,
                rows |-> <<<<StrCell("abcde"), StrCell("abcde"), StrCell("abcde"),
                             StrCell("p")>>>>],
       thresholds |-> DefaultThresholds] :
        cols \in DistinctSeqs(ColumnNames, MaxCols) }

\* The end-to-end scenario.
ScenarioInput ==
    [df1 |-> [columns |-> <<"region", "zone", "woreda", "val">>,
              rows |-> <<<<StrCell("Addis Ababa"), StrCell("Zone1"), StrCell("W1"),
                           IntCell("10")>>>>],
     df2 |-> [columns |-> <<"region", "zone", "woreda", "note">>,
              rows |-> <<<<StrCell("addis ababa"), StrCell("zone 1"), StrCell("w1 "),
                           StrCell("ok")>>>>],
     thresholds |-> DefaultThresholds]

Inputs == PoolInputs \cup ResolverInputs \cup {ScenarioInput}

----------------------------------------------------------------------------
(* State                                                                   *)

VARIABLES
    pc,                     \* where run_app is
    df1, df2,               \* the two tables read from the uploads
    region_threshold, zone_threshold, woreda_threshold,
    col_mapping1, missing1, col_mapping2, missing2,
    df1_copy, df2_copy,     \* the working tables
    df2_non_key_cols,
    index1, index2,         \* the positions of the two for loops
    matched_rows, unmatched_df1_rows, matched_indices_df2,
    merged_df, unmatched_df1, unmatched_df2,    \* the three results
    matched_pairs,          \* history: <<index1, index2>> of every accepted pair
    unmatched_indices_df1,  \* history: index1 of every row appended at line 77
    scanned                 \* history: <<index1, index2>> of every pair scored

vars == <<pc, df1, df2, region_threshold, zone_threshold, woreda_threshold,
          col_mapping1, missing1, col_mapping2, missing2, df1_copy, df2_copy,
          df2_non_key_cols, index1, index2, matched_rows, unmatched_df1_rows,
          matched_indices_df2, merged_df, unmatched_df1, unmatched_df2,
          matched_pairs, unmatched_indices_df1, scanned>>

inputs == <<df1, df2, region_threshold, zone_threshold, woreda_threshold>>
mappings == <<col_mapping1, missing1, col_mapping2, missing2>>
working == <<df1_copy, df2_copy, df2_non_key_cols>>
results == <<merged_df, unmatched_df1, unmatched_df2>>

NoFrame == [columns |-> <<>>, rows |-> <<>>]
NoMapping == [k \in {} |-> ""]

Init ==
    \E inp \in Inputs :
        /\ pc = "resolve"
        /\ df1 = inp.df1
        /\ df2 = inp.df2
        /\ region_threshold = inp.thresholds[1]
        /\ zone_threshold = inp.thresholds[2]
        /\ woreda_threshold = inp.thresholds[3]
        /\ col_mapping1 = NoMapping /\ missing1 = <<>>
        /\ col_mapping2 = NoMapping /\ missing2 = <<>>
        /\ df1_copy = NoFrame /\ df2_copy = NoFrame
        /\ df2_non_key_cols = <<>>
        /\ index1 = 0 /\ index2 = 0
        /\ matched_rows = <<>> /\ unmatched_df1_rows = <<>>
        /\ matched_indices_df2 = {}
        /\ merged_df = <<>> /\ unmatched_df1 = <<>> /\ unmatched_df2 = <<>>
        /\ matched_pairs = <<>> /\ unmatched_indices_df1 = <<>>
        /\ scanned = {}

----------------------------------------------------------------------------
(* run_app: resolve the columns of both tables, then match or report       *)

\* app.py 110-111, and 113: some key of a table is missing
ResolveMissing ==
    /\ pc = "resolve"
    /\ LET m1 == map_columns(df1, required_key_columns)
           m2 == map_columns(df2, required_key_columns)
       IN  /\ m1.missing_cols # <<>> \/ m2.missing_cols # <<>>
           /\ col_mapping1' = m1.col_mapping /\ missing1' = m1.missing_cols
           /\ col_mapping2' = m2.col_mapping /\ missing2' = m2.missing_cols
    /\ pc' = "missing"
    /\ UNCHANGED <<inputs, working, results, index1, index2, matched_rows,
                   unmatched_df1_rows, matched_indices_df2, matched_pairs,
                   unmatched_indices_df1, scanned>>

\* app.py 110-111, and 118: every key of both tables is resolved
ResolveComplete ==
    /\ pc = "resolve"
    /\ LET m1 == map_columns(df1, required_key_columns)
           m2 == map_columns(df2, required_key_columns)
       IN  /\ m1.missing_cols = <<>> /\ m2.missing_cols = <<>>
           /\ col_mapping1' = m1.col_mapping /\ missing1' = m1.missing_cols
           /\ col_mapping2' = m2.col_mapping /\ missing2' = m2.missing_cols
    /\ pc' = "call"
    /\ UNCHANGED <<inputs, working, results, index1, index2, matched_rows,
                   unmatched_df1_rows, matched_indices_df2, matched_pairs,
                   unmatched_indices_df1, scanned>>

----------------------------------------------------------------------------
(* match_and_merge_two_datasets                                            *)

\* standardizer.py 24-36 raising: the exception ends the call (app.py 161)
StandardizeRaises ==
    /\ pc = "call"
    /\ \/ Standardize(df1, col_mapping1).raised
       \/ Standardize(df2, col_mapping2).raised
    /\ pc' = "raised"
    /\ UNCHANGED <<inputs, mappings, working, results, index1, index2, matched_rows,
                   unmatched_df1_rows, matched_indices_df2, matched_pairs,
                   unmatched_indices_df1, scanned>>

\* standardizer.py 24-45: the working copies, the non-key columns of df2 and
\* the empty accumulators; then the loops start
StandardizeColumns ==
    /\ pc = "call"
    /\ ~Standardize(df1, col_mapping1).raised
    /\ ~Standardize(df2, col_mapping2).raised
    /\ df1_copy' = Standardize(df1, col_mapping1).df
    /\ df2_copy' = Standardize(df2, col_mapping2).df
    /\ df2_non_key_cols' = NonKeyCols(df2, col_mapping2)
    /\ matched_rows' = <<>>
    /\ unmatched_df1_rows' = <<>>
    /\ matched_indices_df2' = {}
    /\ index1' = 0
    /\ index2' = InnerStart(0)
    /\ pc' = "scan"
    /\ UNCHANGED <<inputs, mappings, results, matched_pairs, unmatched_indices_df1,
                   scanned>>

Scanning ==
    /\ pc = "scan"
    /\ index1 < NRows(df1_copy)
    /\ index2 < NRows(df2_copy)

\* standardizer.py 53-54: a row of df2 that is already matched is skipped
ScanSkip ==
    /\ Scanning
    /\ AlreadyMatched(index2, matched_indices_df2)
    /\ index2' = index2 + 1
    /\ UNCHANGED <<pc, inputs, mappings, working, results, index1, matched_rows,
                   unmatched_df1_rows, matched_indices_df2, matched_pairs,
                   unmatched_indices_df1, scanned>>

Accepts ==
    MeetsThresholds(RegionScore(df1_copy, df2_copy, index1, index2),
                    ZoneScore(df1_copy, df2_copy, index1, index2),
                    WoredaScore(df1_copy, df2_copy, index1, index2),
                    region_threshold, zone_threshold, woreda_threshold)

\* standardizer.py 56-62 failing: the scan goes on with the next row of df2
ScanReject ==
    /\ Scanning
    /\ ~AlreadyMatched(index2, matched_indices_df2)
    /\ ~Accepts
    /\ index2' = NextAfterReject(index2, NRows(df2_copy))
    /\ scanned' = scanned \cup {<<index1, index2>>}
    /\ UNCHANGED <<pc, inputs, mappings, working, results, index1, matched_rows,
                   unmatched_df1_rows, matched_indices_df2, matched_pairs,
                   unmatched_indices_df1>>

\* standardizer.py 56-74, and 76 with found_match set: the combined row is
\* appended, the row of df2 is claimed and the next row of df1 is taken
ScanAccept ==
    /\ Scanning
    /\ ~AlreadyMatched(index2, matched_indices_df2)
    /\ Accepts
    /\ matched_rows' = Append(matched_rows,
                              CombinedRow(df1, df2, index1, index2, df2_non_key_cols))
    /\ matched_indices_df2' = matched_indices_df2 \cup {index2}
    /\ index1' = index1 + 1
    /\ index2' = InnerStart(index1 + 1)
    /\ scanned' = scanned \cup {<<index1, index2>>}
    /\ matched_pairs' = Append(matched_pairs, <<index1, index2>>)
    /\ UNCHANGED <<pc, inputs, mappings, working, results, unmatched_df1_rows,
                   unmatched_indices_df1>>

\* standardizer.py 52 exhausted, 76-77: no row of df2 was accepted
RowUnmatched ==
    /\ pc = "scan"
    /\ index1 < NRows(df1_copy)
    /\ index2 >= NRows(df2_copy)
    /\ unmatched_df1_rows' = Append(unmatched_df1_rows, RowDict(df1, index1))
    /\ unmatched_indices_df1' = Append(unmatched_indices_df1, index1)
    /\ index1' = index1 + 1
    /\ index2' = InnerStart(index1 + 1)
    /\ UNCHANGED <<pc, inputs, mappings, working, results, matched_rows,
                   matched_indices_df2, matched_pairs, scanned>>

\* standardizer.py 48 exhausted, 79-85: the three results
Return ==
    /\ pc = "scan"
    /\ index1 >= NRows(df1_copy)
    /\ merged_df' = matched_rows
    /\ unmatched_df1' = unmatched_df1_rows
    /\ unmatched_df2' = ILoc(df2, UnmatchedIndices(NRows(df2), matched_indices_df2))
    /\ pc' = "done"
    /\ UNCHANGED <<inputs, mappings, working, index1, index2, matched_rows,
                   unmatched_df1_rows, matched_indices_df2, matched_pairs,
                   unmatched_indices_df1, scanned>>

Next ==
    \/ ResolveMissing
    \/ ResolveComplete
    \/ StandardizeRaises
    \/ StandardizeColumns
    \/ ScanSkip
    \/ ScanReject
    \/ ScanAccept
    \/ RowUnmatched
    \/ Return

Spec == Init /\ [][Next]_vars

----------------------------------------------------------------------------
(* Properties                                                              *)

Returned == pc = "done"

Rows1Idx == 0..(NRows(df1) - 1)
Rows2Idx == 0..(NRows(df2) - 1)

MatchedA == {matched_pairs[k][1] : k \in 1..Len(matched_pairs)}
ClaimedB == {matched_pairs[k][2] : k \in 1..Len(matched_pairs)}
UnmatchedA == Range(unmatched_indices_df1)
UnmatchedB == {unmatched_df2[k].index : k \in 1..Len(unmatched_df2)}

\* Row a of the first working table and row b of the second meet all three
\* thresholds.
Qualifies(a, b) ==
    /\ ScoreGE(RegionScore(df1_copy, df2_copy, a, b), region_threshold)
    /\ ScoreGE(ZoneScore(df1_copy, df2_copy, a, b), zone_threshold)
    /\ ScoreGE(WoredaScore(df1_copy, df2_copy, a, b), woreda_threshold)

\* A score of exactly n.
ScoreIs(score, n) == score.num = n * score.den

\* C1: when match_and_merge_two_datasets returns, every row position of the
\* first table is in exactly one of matched and unmatched-A, every row position
\* of the second in exactly one of claimed and unmatched-B, and the merged rows,
\* the claimed rows and the matched rows are equally many.
C1_Partition ==
    Returned =>
        /\ MatchedA \cup UnmatchedA = Rows1Idx
        /\ MatchedA \cap UnmatchedA = {}
        /\ matched_indices_df2 \cup UnmatchedB = Rows2Idx
        /\ matched_indices_df2 \cap UnmatchedB = {}
        /\ Len(merged_df) = Cardinality(matched_indices_df2)
        /\ Len(merged_df) = Cardinality(MatchedA)
        /\ Len(unmatched_df1) = Len(unmatched_indices_df1)
        /\ Len(merged_df) + Len(unmatched_df1) = NRows(df1)
        /\ Len(merged_df) + Len(unmatched_df2) = NRows(df2)

\* A return with a merged row, an unmatched row of the first table and an
\* unmatched row of the second.
C1_Witness ==
    /\ Returned
    /\ Len(merged_df) >= 1
    /\ Len(unmatched_df1) >= 1
    /\ Len(unmatched_df2) >= 1

\* C2: in every state the accepted pairs are a partial injective function from
\* rows of the first table to rows of the second, the claimed set is its range,
\* and no pair was scored whose second row an earlier first row had claimed.
C2_Injective ==
    /\ \A k, l \in 1..Len(matched_pairs) :
          k # l => /\ matched_pairs[k][1] # matched_pairs[l][1]
                   /\ matched_pairs[k][2] # matched_pairs[l][2]
    /\ matched_indices_df2 = ClaimedB
    /\ \A p \in scanned :
          \A k \in 1..Len(matched_pairs) :
              matched_pairs[k][2] = p[2] => matched_pairs[k][1] >= p[1]

\* Row 1 of the first table passed over the claimed row 0 of the second
\* without scoring it, and claimed row 1.
C2_Witness ==
    /\ Len(matched_pairs) = 2
    /\ matched_pairs[1] = <<0, 0>>
    /\ matched_pairs[2] = <<1, 1>>
    /\ <<1, 0>> \notin scanned

\* The rows of the second table claimed by rows of the first before row a.
ClaimedBefore(a) ==
    {matched_pairs[k][2] : k \in {l \in 1..Len(matched_pairs) : matched_pairs[l][1] < a}}

\* C3: at return, the partner of every matched row a is the lowest row of
\* the second table that no earlier row had claimed and that meets all three
\* thresholds with a.
C3_FirstFit ==
    Returned =>
        \A k \in 1..Len(matched_pairs) :
            LET a == matched_pairs[k][1]
                b == matched_pairs[k][2]
            IN  /\ b \notin ClaimedBefore(a)
                /\ Qualifies(a, b)
                /\ \A j \in 0..(b - 1) : j \in ClaimedBefore(a) \/ ~Qualifies(a, j)

\* Row 0 is bound to row 0, which scores below 100, although the unclaimed
\* row 1 scores 100 on every field.
C3_Witness ==
    /\ Returned
    /\ matched_pairs = <<<<0, 0>>>>
    /\ NRows(df2) >= 2
    /\ ~ScoreIs(RegionScore(df1_copy, df2_copy, 0, 0), 100)
    /\ ~ScoreIs(ZoneScore(df1_copy, df2_copy, 0, 0), 100)
    /\ ~ScoreIs(WoredaScore(df1_copy, df2_copy, 0, 0), 100)
    /\ ScoreIs(RegionScore(df1_copy, df2_copy, 0, 1), 100)
    /\ ScoreIs(ZoneScore(df1_copy, df2_copy, 0, 1), 100)
    /\ ScoreIs(WoredaScore(df1_copy, df2_copy, 0, 1), 100)

\* C4: a scored pair was accepted when and only when each of its three scores
\* is at least its threshold.
C4_AndThreshold ==
    Returned =>
        \A p \in scanned :
            p \in Range(matched_pairs) <=>
                /\ RegionScore(df1_copy, df2_copy, p[1], p[2]).num
                      >= region_threshold * RegionScore(df1_copy, df2_copy, p[1], p[2]).den
                /\ ZoneScore(df1_copy, df2_copy, p[1], p[2]).num
                      >= zone_threshold * ZoneScore(df1_copy, df2_copy, p[1], p[2]).den
                /\ WoredaScore(df1_copy, df2_copy, p[1], p[2]).num
                      >= woreda_threshold * WoredaScore(df1_copy, df2_copy, p[1], p[2]).den

\* An accepted pair whose three scores are exactly the three thresholds.
C4_Witness ==
    /\ Returned
    /\ \E p \in Range(matched_pairs) :
          /\ ScoreIs(RegionScore(df1_copy, df2_copy, p[1], p[2]), region_threshold)
          /\ ScoreIs(ZoneScore(df1_copy, df2_copy, p[1], p[2]), zone_threshold)
          /\ ScoreIs(WoredaScore(df1_copy, df2_copy, p[1], p[2]), woreda_threshold)

\* A scored pair that was not accepted: one score is one below its threshold
\* and the other two are 100.
C4_OneBelow ==
    /\ Returned
    /\ \E p \in scanned \ Range(matched_pairs) :
          /\ ScoreIs(RegionScore(df1_copy, df2_copy, p[1], p[2]), region_threshold - 1)
          /\ ScoreIs(ZoneScore(df1_copy, df2_copy, p[1], p[2]), 100)
          /\ ScoreIs(WoredaScore(df1_copy, df2_copy, p[1], p[2]), 100)

\* The run is the end-to-end scenario.
IsScenario ==
    /\ df1 = ScenarioInput.df1
    /\ df2 = ScenarioInput.df2
    /\ <<region_threshold, zone_threshold, woreda_threshold>> = ScenarioInput.thresholds

ScenarioMergedRow ==
    [c \in {"region", "zone", "woreda", "val", "note"} |->
        CASE c = "region" -> StrCell("Addis Ababa")
          [] c = "zone" -> StrCell("Zone1")
          [] c = "woreda" -> StrCell("W1")
          [] c = "val" -> IntCell("10")
          [] c = "note" -> StrCell("ok")]

\* C5: the end-to-end scenario returns the one merged row and two empty
\* tables of unmatched rows.
C5_Scenario ==
    (IsScenario /\ Returned) =>
        /\ merged_df = <<ScenarioMergedRow>>
        /\ unmatched_df1 = <<>>
        /\ unmatched_df2 = <<>>

\* The key columns of the second table, under the labels of that table.
KeyCols2 == {col_mapping2[k] : k \in DOMAIN col_mapping2}

LabelScore(key, label) == Ratio(key, Lower(Strip(label)))

\* The resolver's answer (mapping, missing) for the labels of a table is right
\* for every key.
Resolved(df, mapping, missing) ==
    \A key \in Range(required_key_columns) :
        /\ key \in DOMAIN mapping <=>
              \E k \in 1..Len(df.columns) :
                  ScoreGE(LabelScore(key, df.columns[k]), ColumnNameThreshold)
        /\ key \in DOMAIN mapping <=> key \notin Range(missing)
        /\ Count(missing, key) <= 1
        /\ key \in DOMAIN mapping =>
              \E k \in 1..Len(df.columns) :
                  /\ mapping[key] = df.columns[k]
                  /\ \A j \in 1..Len(df.columns) :
                        ScoreLE(LabelScore(key, df.columns[j]),
                                LabelScore(key, df.columns[k]))
                  /\ \A j \in 1..(k - 1) :
                        ScoreLess(LabelScore(key, df.columns[j]),
                                  LabelScore(key, df.columns[k]))

\* C7: when map_columns has run on both tables, every required key is mapped
\* if and only if some label scores 85 or more, then to the first label of the
\* highest score, and is listed as missing otherwise.
C7_ColumnResolver ==
    pc \in {"missing", "call"} =>
        /\ Resolved(df1, col_mapping1, missing1)
        /\ Resolved(df2, col_mapping2, missing2)

\* Two labels that differ after stripping and lower-casing score the same,
\* highest, score of 85 or more for a key, and the key is mapped to the first.
C7_Witness ==
    /\ pc \in {"missing", "call"}
    /\ \E key \in DOMAIN col_mapping1 :
          \E i, j \in 1..Len(df1.columns) :
              /\ i < j
              /\ col_mapping1[key] = df1.columns[i]
              /\ Lower(Strip(df1.columns[i])) # Lower(Strip(df1.columns[j]))
              /\ LabelScore(key, df1.columns[i]) = LabelScore(key, df1.columns[j])
    /\ missing1 # <<>>

\* C8: in both working tables the text compared for every key is the
\* stripped, lower-cased text of the original cell.
C8_Normalized ==
    pc = "scan" =>
        \A key \in Range(required_key_columns) :
            /\ \A i \in Rows1Idx :
                  ToText(Cell(df1_copy, i, key))
                      = Lower(Strip(ToText(Cell(df1, i, col_mapping1[key]))))
            /\ \A i \in Rows2Idx :
                  ToText(Cell(df2_copy, i, key))
                      = Lower(Strip(ToText(Cell(df2, i, col_mapping2[key]))))

\* C9: every merged row holds every column of the first table with the
\* original value of the matched row, and every unmatched row of the first
\* table is the original row.
C9_FirstTableIntact ==
    Returned =>
        /\ \A k \in 1..Len(merged_df) :
              \A c \in Range(df1.columns) :
                  /\ c \in DOMAIN merged_df[k]
                  /\ merged_df[k][c] = Cell(df1, matched_pairs[k][1], c)
        /\ \A k \in 1..Len(unmatched_df1) :
              unmatched_df1[k] = RowDict(df1, unmatched_indices_df1[k])

\* C10: at return no unmatched row of the first table meets all three
\* thresholds with an unmatched row of the second.
C10_Maximal ==
    Returned =>
        \A a \in UnmatchedA : \A b \in UnmatchedB : ~Qualifies(a, b)

\* An unmatched row of the first table that meets the thresholds with a row
\* claimed before it, and fails them with a row left unmatched.
C10_Witness ==
    /\ Returned
    /\ \E a \in UnmatchedA :
          /\ \E b \in ClaimedBefore(a) : Qualifies(a, b)
          /\ \E b \in UnmatchedB : ~Qualifies(a, b)

====
